---- MODULE Spec2Model ----
(***************************************************************************)
(* ClangBuildAnalyzer: the command line driver (src/src/main.cpp) and the  *)
(* event store / names table data structures (src/src/BuildEvents.h).      *)
(*                                                                         *)
(* Strings whose characters matter (paths, compared file texts) are        *)
(* sequences of character codes; other strings are TLA+ strings.           *)
(* Event and detail handles are the 0-based ints of the source: the event  *)
(* with handle h is events[h + 1].                                         *)
(***************************************************************************)
EXTENDS Integers, Sequences, FiniteSets

VARIABLES
    \* ---- one invocation of the executable (main, ProcessCommands) ----
    argc,         \* number of command line arguments
    argv1,        \* argv[1], "" when absent
    pc,           \* position of the invocation
    retCode,      \* main's return value, None while running
    printed,      \* what was printed so far: sequence of [text, file]
    session,      \* start time in ClangBuildAnalyzerSession.txt, None when absent
    fsOk,         \* whether fopen(..., "wt") of the session file succeeds
    \* ---- RunAnalyze ----
    dir,          \* the directory: entry i has path PathPool[i] and kind dir[i]
    traversed,    \* the entries cf_traverse has delivered so far, in its order
    startTime,    \* jsonFiles.startTime
    endTime,      \* jsonFiles.endTime
    files,        \* jsonFiles.files (std::set: ascending, no duplicates)
    fileIdx,      \* number of loop iterations of "for (auto& file : files)" done
    parsedFiles,  \* the paths handed to ParseBuildEvents, in order
    contributed,  \* number of events each of those calls appended
    report,       \* what DoAnalysis produced
    \* ---- the shared structures ----
    events,       \* BuildEvents
    names,        \* BuildNames: set of <<string, handle>> pairs
    \* ---- ParseBuildEvents, one trace document ----
    stack,        \* open events of the document being parsed
    lastTs,       \* start time of the document's previous record
    \* ---- interning ----
    lastStr,      \* the string of the latest intern call
    lastHandle,   \* the handle it returned
    firstHandle,  \* <<string, the handle its first intern call returned>>
    \* ---- IndexedVector::operator[] ----
    lookup,       \* outcome of the latest events[pos]
    \* ---- CompareIgnoreNewlines ----
    cmpA, cmpB,   \* the two texts
    cmpRet        \* the result, None before the call

cliVars     == <<argc, argv1, pc, retCode, printed, session, fsOk>>
analyzeVars == <<dir, traversed, startTime, endTime, files, fileIdx,
                 parsedFiles, contributed, report>>
storeVars   == <<events, names>>
parseVars   == <<stack, lastTs>>
internVars  == <<lastStr, lastHandle, firstHandle>>
cmpVars     == <<cmpA, cmpB, cmpRet>>
vars == <<cliVars, analyzeVars, storeVars, parseVars, internVars, lookup, cmpVars>>

\* ------------------------------------------------------------------ bounds
MaxLen   == 3   \* length of the texts CompareIgnoreNewlines is given
MaxFiles == 3   \* entries of the traversed directory
MaxTime  == 2   \* largest start time and duration of a generated trace record
MaxStore == 3   \* events put in the store by generated trace records
MaxNames == 4   \* distinct strings offered to the names table

\* An optional value (std::optional, a result not produced yet): <<>> or <<v>>.
None    == <<>>
Some(v) == <<v>>

\* ------------------------------------------------------ character strings
CR        == 13   \* '\r'
Backslash == 92   \* '\\'
Slash     == 47   \* '/'

\* std::string's operator< : lexicographic on the character codes
RECURSIVE StrLess(_, _)
StrLess(a, b) ==
    IF b = <<>> THEN FALSE
    ELSE IF a = <<>> THEN TRUE
    ELSE IF a[1] < b[1] THEN TRUE
    ELSE IF a[1] > b[1] THEN FALSE
    ELSE StrLess(Tail(a), Tail(b))

\* ------------------------------------------------- CompareIgnoreNewlines
\* One evaluation of the for loop's condition, body and increment, from (ia, ib).
RECURSIVE CompareLoop(_, _, _, _)
CompareLoop(a, b, ia, ib) ==
    IF ~(ia < Len(a) /\ ib < Len(b))
    THEN ~(ia # Len(a) \/ ib # Len(b))
    ELSE LET ia1 == IF a[ia + 1] = CR THEN ia + 1 ELSE ia
             ib1 == IF b[ib + 1] = CR THEN ib + 1 ELSE ib
         IN  IF ia1 < Len(a) /\ ib1 < Len(b) /\ a[ia1 + 1] # b[ib1 + 1]
             THEN FALSE
             ELSE CompareLoop(a, b, ia1 + 1, ib1 + 1)

CompareIgnoreNewlines(a, b) == CompareLoop(a, b, 0, 0)

\* The characters the compared texts are made of: '\r', '\n' and 'x'.
Chars == {CR, 10, 120}
Texts == UNION {[1..n -> Chars] : n \in 0..MaxLen}

\* A text with every '\r' removed.
StripCR(s) == SelectSeq(s, LAMBDA c : c # CR)

\* ------------------------------------------------ values of unused state
CliIdle ==
    /\ argc = 0 /\ argv1 = "" /\ pc = "idle" /\ retCode = None
    /\ printed = <<>> /\ session = None /\ fsOk = TRUE
AnalyzeIdle ==
    /\ dir = <<>> /\ traversed = <<>> /\ startTime = 0 /\ endTime = 0
    /\ files = <<>> /\ fileIdx = 0 /\ parsedFiles = <<>> /\ contributed = <<>>
    /\ report = None
StoreIdle  == events = <<>> /\ names = {}
ParseIdle  == stack = <<>> /\ lastTs = 0
InternIdle == lastStr = None /\ lastHandle = 0 /\ firstHandle = {}
LookupIdle == lookup = None
CmpIdle    == cmpA = <<>> /\ cmpB = <<>> /\ cmpRet = None

\* ===================================================== SpecCompare
\* RunOneTest's comparison of a produced text with the expected one.
InitCompare ==
    /\ cmpA \in Texts /\ cmpB \in Texts /\ cmpRet = None
    /\ CliIdle /\ AnalyzeIdle /\ StoreIdle /\ ParseIdle /\ InternIdle /\ LookupIdle

Compare ==
    /\ cmpRet = None
    /\ cmpRet' = Some(CompareIgnoreNewlines(cmpA, cmpB))
    /\ UNCHANGED <<cmpA, cmpB, cliVars, analyzeVars, storeVars, parseVars,
                   internVars, lookup>>

NextCompare == Compare
SpecCompare == InitCompare /\ [][NextCompare]_vars

\* C10: CompareIgnoreNewlines(a, b) is true exactly when a and b are equal once
\* every '\r' is removed from both (so it is reflexive, and a trailing '\r' in
\* one text only makes no difference).
C10_EqualModuloCR ==
    cmpRet # None => (cmpRet[1] = (StripCR(cmpA) = StripCR(cmpB)))

\* C10, the reflexive case alone: a text compares equal to itself.
C10_Reflexive ==
    (cmpRet # None /\ cmpA = cmpB) => cmpRet[1] = TRUE

\* ===================================================== BuildEvents.h
\* explicit DetailIndex(int d = 0) : idx(d)
DetailIndex_IgnoresArgument(d) == 0
DetailIndex(d) == d

\* explicit EventIndex(int e = -1) : idx(e)
EventIndex(e) == e

\* A default-constructed BuildEvent.
BuildEvent_ParentZero ==
    [type |-> "kUnknown", ts |-> 0, dur |-> 0, detailIndex |-> DetailIndex(0),
     parent |-> EventIndex(0), children |-> <<>>]
BuildEvent ==
    [type |-> "kUnknown", ts |-> 0, dur |-> 0, detailIndex |-> DetailIndex(0),
     parent |-> EventIndex(-1), children |-> <<>>]

BuildEventTypes ==
    {"kUnknown", "kCompiler", "kFrontend", "kBackend", "kParseFile",
     "kParseTemplate", "kParseClass", "kInstantiateClass",
     "kInstantiateFunction", "kOptModule", "kOptFunction"}

\* IndexedVector::operator[](Idx pos): this->begin()[pos.idx], unchecked. Within
\* the vector it is the element; outside it the behaviour is undefined: the
\* process may die, or the bytes found there are handed back as a BuildEvent.
IndexedVectorAt(v, pos) ==
    IF 0 <= pos /\ pos < Len(v)
    THEN {[kind |-> "element", value |-> v[pos + 1]]}
    ELSE {[kind |-> "fatal", value |-> BuildEvent]}
         \cup {[kind |-> "element", value |-> g] :
                    g \in {BuildEvent} \cup {v[i] : i \in 1..Len(v)}}

\* BuildNames: boost::bimap<std::string, DetailIndex>, a set of (string, handle)
\* pairs unique on both sides. insert leaves the map as it is when either side
\* of the new pair is already there.
BimapInsert(nm, s, h) ==
    IF \E p \in nm : p[1] = s \/ p[2] = h THEN nm ELSE nm \cup {<<s, h>>}

\* names.left.find(s): the handles paired with s (none or one).
BimapLeftFind(nm, s) == {p[2] : p \in {q \in nm : q[1] = s}}
\* names.right.find(h): the strings paired with h (none or one).
BimapRightFind(nm, h) == {p[1] : p \in {q \in nm : q[2] = h}}

\* ---------------------------------------------------- Name Interner
\* intern(string): the existing handle when the string was seen before, else a
\* new, densely packed one.
Intern(nm, s) ==
    LET found == BimapLeftFind(nm, s)
        h     == DetailIndex(Cardinality(nm))
    IN  IF found # {}
        THEN [names |-> nm, handle |-> CHOOSE x \in found : TRUE]
        ELSE [names |-> BimapInsert(nm, s, h), handle |-> h]

\* resolve(handle): the string of a handle, None when the table has none.
Resolve(nm, h) ==
    LET found == BimapRightFind(nm, h)
    IN  IF found = {} THEN None ELSE Some(CHOOSE x \in found : TRUE)

\* ------------------------------------------------------- Trace Parser
\* A trace record is [cat, ts, dur, name]; name "" when the record has none.
NoName == ""
KnownCategories ==
    [Compiler |-> "kCompiler", Frontend |-> "kFrontend", Backend |-> "kBackend",
     ParseFile |-> "kParseFile", ParseTemplate |-> "kParseTemplate",
     ParseClass |-> "kParseClass", InstantiateClass |-> "kInstantiateClass",
     InstantiateFunction |-> "kInstantiateFunction",
     OptModule |-> "kOptModule", OptFunction |-> "kOptFunction"]

\* The kind of a record's category; an unrecognised one is kept as kUnknown.
KindOf(cat) ==
    IF cat \in DOMAIN KnownCategories THEN KnownCategories[cat] ELSE "kUnknown"

\* The interval [ts, ts + dur] lies within event p's.
Contains(p, ts, dur) == p.ts <= ts /\ ts + dur <= p.ts + p.dur

\* Pop the stack of open events until its top contains [ts, ts + dur].
RECURSIVE PopUntilContains(_, _, _, _)
PopUntilContains(ev, stk, ts, dur) ==
    IF stk = <<>> THEN stk
    ELSE IF Contains(ev[stk[Len(stk)] + 1], ts, dur) THEN stk
    ELSE PopUntilContains(ev, SubSeq(stk, 1, Len(stk) - 1), ts, dur)

\* The handle a record's name gets, and the names table afterwards.
DetailOf(nm, rec) ==
    IF rec.name # NoName THEN Intern(nm, rec.name)
    ELSE [names |-> nm, handle |-> BuildEvent.detailIndex]

\* One record of a document: st is [events, names, stack].
AddEvent(st, rec) ==
    LET open   == PopUntilContains(st.events, st.stack, rec.ts, rec.dur)
        self   == EventIndex(Len(st.events))
        detail == DetailOf(st.names, rec)
        ev     == [BuildEvent EXCEPT
                      !.type = KindOf(rec.cat), !.ts = rec.ts, !.dur = rec.dur,
                      !.detailIndex = detail.handle,
                      !.parent = IF open = <<>> THEN @ ELSE open[Len(open)]]
        linked == IF open = <<>> THEN st.events
                  ELSE [st.events EXCEPT ![open[Len(open)] + 1].children =
                                              Append(@, self)]
    IN  [events |-> Append(linked, ev),
         names  |-> detail.names,
         stack  |-> Append(open, self)]

RECURSIVE ParseRecords(_, _)
ParseRecords(st, recs) ==
    IF recs = <<>> THEN st
    ELSE ParseRecords(AddEvent(st, Head(recs)), Tail(recs))

\* ParseBuildEvents(fileName, jsonText, outEvents, outNames): the records of one
\* document, in order, appended to the shared store and names table.
ParseBuildEvents(recs, ev, nm) ==
    LET st == ParseRecords([events |-> ev, names |-> nm, stack |-> <<>>], recs)
    IN  [events |-> st.events, names |-> st.names]

\* ===================================================== SpecParse
\* The parser fed chronologically ordered documents, one record at a time.
Times == 0..MaxTime
GeneratedRecords ==
    [cat : {"ParseFile"}, ts : Times, dur : Times, name : {"a.h"}]

InitParse ==
    /\ StoreIdle /\ ParseIdle
    /\ CliIdle /\ AnalyzeIdle /\ InternIdle /\ LookupIdle /\ CmpIdle

\* The next record of the current document.
ParseRecord(rec) ==
    /\ Len(events) < MaxStore
    /\ rec.ts >= lastTs
    /\ LET st == AddEvent([events |-> events, names |-> names, stack |-> stack], rec)
       IN  /\ events' = st.events
           /\ names' = st.names
           /\ stack' = st.stack
    /\ lastTs' = rec.ts
    /\ UNCHANGED <<cliVars, analyzeVars, internVars, lookup, cmpVars>>

\* The current document ends; the next call starts with an empty stack.
NextDocument ==
    /\ stack # <<>>
    /\ stack' = <<>>
    /\ lastTs' = 0
    /\ UNCHANGED <<storeVars, cliVars, analyzeVars, internVars, lookup, cmpVars>>

NextParse == (\E rec \in GeneratedRecords : ParseRecord(rec)) \/ NextDocument
SpecParse == InitParse /\ [][NextParse]_vars

\* C5: every event of the store whose parent is not the sentinel -1 lies within
\* its parent: parent.ts <= ts and ts + dur <= parent.ts + parent.dur.
C5_Containment ==
    \A i \in 1..Len(events) :
        events[i].parent # -1 =>
            LET p == events[events[i].parent + 1]
            IN  /\ p.ts <= events[i].ts
                /\ events[i].ts + events[i].dur <= p.ts + p.dur

\* C5 witness: an event became the child of an event that is not its
\* predecessor: the stack was popped down to an event that contains it.
C5_Witness ==
    \E i \in 1..Len(events) :
        events[i].parent # -1 /\ events[i].parent # i - 2

\* ===================================================== SpecIntern
StringPool == <<"foo", "bar", "a.h", "b.h", "c.h", "d.h", "e.h">>
Strings == {StringPool[i] : i \in 1..MaxNames}

InitIntern ==
    /\ StoreIdle /\ InternIdle
    /\ CliIdle /\ AnalyzeIdle /\ ParseIdle /\ LookupIdle /\ CmpIdle

InternString(s) ==
    /\ LET r == Intern(names, s)
       IN  /\ names' = r.names
           /\ lastHandle' = r.handle
           /\ firstHandle' = IF \E p \in firstHandle : p[1] = s
                             THEN firstHandle
                             ELSE firstHandle \cup {<<s, r.handle>>}
    /\ lastStr' = Some(s)
    /\ UNCHANGED <<events, cliVars, analyzeVars, parseVars, lookup, cmpVars>>

NextIntern == \E s \in Strings : InternString(s)
SpecIntern == InitIntern /\ [][NextIntern]_vars

\* C6: the handle an intern call returns resolves to the string interned, two
\* distinct strings never got the same handle, and a string interned before
\* gets the handle of its first call, the table holding one entry per string.
C6_InternBijection ==
    /\ lastStr # None =>
           /\ Resolve(names, lastHandle) = lastStr
           /\ <<lastStr[1], lastHandle>> \in firstHandle
    /\ \A p, q \in firstHandle : p[1] # q[1] => p[2] # q[2]
    /\ \A p \in firstHandle : Resolve(names, p[2]) = Some(p[1])
    /\ Cardinality(names) = Cardinality({p[1] : p \in firstHandle})

\* C6 witness: the latest call interned again a string that is not the newest
\* of three.
C6_Witness ==
    /\ lastStr # None
    /\ Cardinality(names) >= 3
    /\ lastHandle < Cardinality(names) - 1

\* ===================================================== SpecIndex
\* The event store filled by push_back and read through operator[].
InitIndex ==
    /\ StoreIdle /\ LookupIdle
    /\ CliIdle /\ AnalyzeIdle /\ ParseIdle /\ InternIdle /\ CmpIdle

PushBack(t) ==
    /\ Len(events) < MaxStore
    /\ events' = Append(events, [BuildEvent EXCEPT !.ts = t])
    /\ lookup' = None
    /\ UNCHANGED <<names, cliVars, analyzeVars, parseVars, internVars, cmpVars>>

\* events[pos] with any handle, the sentinel -1 included.
IndexAt(pos) ==
    /\ \E r \in IndexedVectorAt(events, pos) :
           lookup' = Some([pos |-> pos, result |-> r])
    /\ UNCHANGED <<storeVars, cliVars, analyzeVars, parseVars, internVars, cmpVars>>

NextIndex ==
    \/ \E t \in Times : PushBack(t)
    \/ \E pos \in -1..(Len(events) + 1) : IndexAt(pos)
SpecIndex == InitIndex /\ [][NextIndex]_vars

\* C8: indexing the store with a handle that is out of range ends in a fatal
\* error and never yields an event record.
C8_OutOfRangeIsFatal ==
    (lookup # None /\ ~(0 <= lookup[1].pos /\ lookup[1].pos < Len(events)))
        => lookup[1].result.kind = "fatal"

\* ===================================================== main.cpp, the driver
\* The times of the modelled world: the session's start, time(NULL) during
\* --analyze, and the modification times a file can have around them.
Clock == [sessionStart |-> 5, now |-> 9, stale |-> 3, fresh |-> 7, future |-> 11]

\* The paths cf_traverse can deliver: "b", "a", "a\b", "a/b", "c".
PathPool == << <<98>>, <<97>>, <<97, Backslash, 98>>, <<97, Slash, 98>>, <<99>> >>

\* The text of a file: empty or not, with the clang marker or not, and the
\* trace records a parser finds in it.
DocUnreadable == [empty |-> TRUE,  marker |-> FALSE, recs |-> <<>>]
DocNoMarker ==
    [empty |-> FALSE, marker |-> FALSE,
     recs |-> <<[cat |-> "InstantiateFunction", ts |-> 0, dur |-> 7, name |-> "foo"]>>]
DocNoEvents == [empty |-> FALSE, marker |-> TRUE, recs |-> <<>>]
DocFoo100 ==
    [empty |-> FALSE, marker |-> TRUE,
     recs |-> <<[cat |-> "InstantiateFunction", ts |-> 0, dur |-> 100, name |-> "foo"]>>]
DocFoo250 ==
    [empty |-> FALSE, marker |-> TRUE,
     recs |-> <<[cat |-> "InstantiateFunction", ts |-> 0, dur |-> 250, name |-> "foo"]>>]
DocNested ==
    [empty |-> FALSE, marker |-> TRUE,
     recs |-> <<[cat |-> "ParseFile", ts |-> 0, dur |-> 1000, name |-> "a.h"],
                [cat |-> "ParseTemplate", ts |-> 100, dur |-> 300, name |-> "foo"],
                [cat |-> "Total Source", ts |-> 500, dur |-> 10, name |-> NoName]>>]
Docs == {DocUnreadable, DocNoMarker, DocNoEvents, DocFoo100, DocFoo250, DocNested}

\* A directory entry: what cf_get_ext and cf_get_file_time say of it, and its text.
Fresh(doc) == [ext |-> ".json", timeOk |-> TRUE, mtime |-> Clock.fresh, doc |-> doc]
FileKinds ==
    {Fresh(d) : d \in Docs}
    \cup {[Fresh(DocFoo100) EXCEPT !.ext = ".txt"],
          [Fresh(DocFoo100) EXCEPT !.timeOk = FALSE],
          [Fresh(DocFoo100) EXCEPT !.mtime = Clock.stale],
          [Fresh(DocFoo100) EXCEPT !.mtime = Clock.future]}

Entries == 1..MaxFiles

\* std::replace(path.begin(), path.end(), '\\', '/')
ReplaceBackslash(path) ==
    [i \in 1..Len(path) |-> IF path[i] = Backslash THEN Slash ELSE path[i]]

\* std::set<std::string>::insert on the ascending sequence of the set's elements.
SetInsert_PushBack(seq, x) ==
    IF \E i \in 1..Len(seq) : seq[i] = x THEN seq ELSE Append(seq, x)
SetInsert(seq, x) ==
    IF \E i \in 1..Len(seq) : seq[i] = x THEN seq
    ELSE LET k == Cardinality({i \in 1..Len(seq) : StrLess(seq[i], x)})
         IN  SubSeq(seq, 1, k) \o <<x>> \o SubSeq(seq, k + 1, Len(seq))

\* JsonFileFinder::OnFile: jsonFiles.files after the callback got entry f at path.
OnFileResult(found, f, path, start, end) ==
    IF f.ext # ".json" THEN found
    ELSE IF ~f.timeOk THEN found
    ELSE IF f.mtime < start \/ f.mtime > end THEN found
    ELSE SetInsert(found, ReplaceBackslash(path))

\* ReadFileToString(path): the text of the file at path, empty when fopen fails.
ReadFileToString(d, path) ==
    LET hit == {i \in DOMAIN d : PathPool[i] = path}
    IN  IF hit = {} THEN DocUnreadable ELSE d[CHOOSE i \in hit : TRUE].doc

\* strstr(str.c_str(), clangMarker) != NULL
HasClangMarker_Always(str) == TRUE
HasClangMarker(str) == str.marker

\* "BuildEvents events;" is declared before the loop over the files: every
\* ParseBuildEvents call is handed the store the earlier calls filled.
StoreForFile_Fresh(ev) == <<>>
StoreForFile(ev) == ev

\* ----------------------------------------------------------- Aggregator
\* One event added to the running totals, a set of [kind, detail, total, count].
Accumulate(acc, e) ==
    LET old == {r \in acc : r.kind = e.type /\ r.detail = e.detailIndex}
    IN  IF old = {}
        THEN acc \cup {[kind |-> e.type, detail |-> e.detailIndex,
                        total |-> e.dur, count |-> 1]}
        ELSE (acc \ old) \cup {[r EXCEPT !.total = @ + e.dur, !.count = @ + 1] : r \in old}

RECURSIVE Totals(_, _)
Totals(ev, acc) ==
    IF ev = <<>> THEN acc ELSE Totals(Tail(ev), Accumulate(acc, Head(ev)))

\* DoAnalysis(events, names, out): a single pass over the whole store; an empty
\* store is the "no events" condition.
DoAnalysis(ev, nm) ==
    [status |-> IF ev = <<>> THEN "no events" ELSE "ok", totals |-> Totals(ev, {})]

\* ------------------------------------------------------------- RunTests
\* What RunOneTest finds in one test folder.
TestPass ==
    [is_dir |-> TRUE, hidden |-> FALSE, gotTrace |-> <<120, 10>>, expTrace |-> <<120, 10>>,
     outOk |-> TRUE, analysisResult |-> 0, gotAnalysis |-> <<120>>, expAnalysis |-> <<120>>]
TestEntries ==
    {TestPass,
     [TestPass EXCEPT !.is_dir = FALSE, !.expTrace = <<10>>],
     [TestPass EXCEPT !.hidden = TRUE, !.expTrace = <<10>>],
     [TestPass EXCEPT !.gotTrace = <<120, CR, 10>>],
     [TestPass EXCEPT !.outOk = FALSE],
     [TestPass EXCEPT !.analysisResult = 1],
     [TestPass EXCEPT !.expAnalysis = <<10>>]}

RunOneTest(e) ==
    IF ~CompareIgnoreNewlines(e.gotTrace, e.expTrace) THEN FALSE
    ELSE IF ~e.outOk THEN FALSE
    ELSE IF e.analysisResult # 0 THEN FALSE
    ELSE IF ~CompareIgnoreNewlines(e.gotAnalysis, e.expAnalysis) THEN FALSE
    ELSE TRUE

\* The failures RunTests counts over a folder listing.
RECURSIVE Failures(_)
Failures(listing) ==
    IF listing = <<>> THEN 0
    ELSE LET e == Head(listing)
         IN  (IF e.is_dir /\ ~e.hidden /\ ~RunOneTest(e) THEN 1 ELSE 0)
             + Failures(Tail(listing))

\* --------------------------------------------------------------- messages
\* A printed line: its text and the file path it names.
Msg(text, file) == [text |-> text, file |-> file]
\* A message that names no file.
NoFile == <<>>
\* The command RunStart's message tells the user to run next.
AdvisedCommand == "--stop"
StartedMessage ==
    Msg("Build tracing started. Do some Clang builds, then run ClangBuildAnalyzer --stop",
        NoFile)

\* ===================================================== Spec
\* The first argument of a fresh invocation.
Commands == {"--start", "--analyze", "--test", "--help"}

Init ==
    /\ pc = "main" /\ retCode = None /\ printed = <<>>
    /\ argc \in 1..3
    /\ argv1 \in (IF argc < 2 THEN {""} ELSE Commands)
    /\ fsOk \in (IF argv1 = "--start" THEN BOOLEAN ELSE {TRUE})
    /\ session \in (IF argv1 = "--analyze" /\ argc = 3
                    THEN {None, Some(Clock.sessionStart)} ELSE {None})
    /\ \E present \in SUBSET Entries :
           /\ (session = None => present = {})
           /\ dir \in [present -> FileKinds]
    /\ traversed = <<>> /\ startTime = 0 /\ endTime = 0
    /\ files = <<>> /\ fileIdx = 0 /\ parsedFiles = <<>> /\ contributed = <<>>
    /\ report = None
    /\ StoreIdle /\ ParseIdle /\ InternIdle /\ LookupIdle /\ CmpIdle

Finish(code, msgs) ==
    /\ pc' = "done"
    /\ retCode' = Some(code)
    /\ printed' = printed \o msgs

\* main with no command: PrintUsage.
MainUsage ==
    /\ pc = "main" /\ argc < 2
    /\ Finish(1, <<Msg("USAGE", NoFile)>>)
    /\ UNCHANGED <<argc, argv1, session, fsOk, analyzeVars, storeVars,
                   parseVars, internVars, lookup, cmpVars>>

\* ProcessCommands -> RunStart
CmdStart ==
    /\ pc = "main" /\ argc >= 2 /\ argv1 = "--start"
    /\ IF argc < 3
       THEN Finish(1, <<Msg("ERROR: --start requires <artifactsdir>", NoFile)>>)
            /\ UNCHANGED session
       ELSE IF ~fsOk
       THEN Finish(1, <<Msg("ERROR: failed to create session file", NoFile)>>)
            /\ UNCHANGED session
       ELSE /\ session' = Some(Clock.now)
            /\ Finish(0, <<StartedMessage>>)
    /\ UNCHANGED <<argc, argv1, fsOk, analyzeVars, storeVars,
                   parseVars, internVars, lookup, cmpVars>>

\* ProcessCommands -> RunTests
CmdTest ==
    /\ pc = "main" /\ argc >= 2 /\ argv1 = "--test"
    /\ IF argc < 3
       THEN Finish(1, <<Msg("ERROR: --test requires <test_folder>", NoFile)>>)
       ELSE \E n \in 0..2 : \E listing \in [1..n -> TestEntries] :
                LET failures == Failures(listing)
                IN  Finish(IF failures # 0 THEN 1 ELSE 0,
                           <<Msg("tests done", NoFile)>>
                           \o (IF failures # 0
                               THEN <<Msg("had failures", NoFile)>> ELSE <<>>))
    /\ UNCHANGED <<argc, argv1, session, fsOk, analyzeVars, storeVars,
                   parseVars, internVars, lookup, cmpVars>>

\* ProcessCommands, no command matched
CmdUnsupported ==
    /\ pc = "main" /\ argc >= 2
    /\ argv1 \notin {"--start", "--analyze", "--test"}
    /\ Finish(1, <<Msg("Unsupported command line arguments", NoFile),
                   Msg("USAGE", NoFile)>>)
    /\ UNCHANGED <<argc, argv1, session, fsOk, analyzeVars, storeVars,
                   parseVars, internVars, lookup, cmpVars>>

\* ProcessCommands -> RunAnalyze, up to the call of cf_traverse
AnalyzeBegin ==
    /\ pc = "main" /\ argc >= 2 /\ argv1 = "--analyze"
    /\ IF argc < 3
       THEN Finish(1, <<Msg("ERROR: --analyze requires <filename>", NoFile)>>)
            /\ UNCHANGED <<startTime, endTime>>
       ELSE IF session = None
       THEN Finish(1, <<Msg("Analyzing build trace", NoFile),
                        Msg("ERROR: failed to open session file", NoFile)>>)
            /\ UNCHANGED <<startTime, endTime>>
       ELSE /\ startTime' = session[1]
            /\ endTime' = Clock.now
            /\ pc' = "traverse"
            /\ printed' = Append(printed, Msg("Analyzing build trace", NoFile))
            /\ UNCHANGED retCode
    /\ UNCHANGED <<argc, argv1, session, fsOk, dir, traversed, files, fileIdx,
                   parsedFiles, contributed, report, storeVars,
                   parseVars, internVars, lookup, cmpVars>>

\* cf_traverse delivers one more entry, in an order of its own, to
\* JsonFileFinder::Callback.
OnFile(i) ==
    /\ pc = "traverse"
    /\ i \in DOMAIN dir
    /\ \A k \in 1..Len(traversed) : traversed[k] # i
    /\ traversed' = Append(traversed, i)
    /\ files' = OnFileResult(files, dir[i], PathPool[i], startTime, endTime)
    /\ UNCHANGED <<cliVars, dir, startTime, endTime, fileIdx, parsedFiles,
                   contributed, report, storeVars, parseVars, internVars,
                   lookup, cmpVars>>

\* cf_traverse returns.
TraverseEnd ==
    /\ pc = "traverse"
    /\ Len(traversed) = Cardinality(DOMAIN dir)
    /\ IF files = <<>>
       THEN Finish(1, <<Msg("ERROR: no clang -ftime-trace .json files found", NoFile)>>)
       ELSE pc' = "loop" /\ UNCHANGED <<retCode, printed>>
    /\ UNCHANGED <<argc, argv1, session, fsOk, analyzeVars, storeVars,
                   parseVars, internVars, lookup, cmpVars>>

\* One iteration of "for (auto& file : jsonFiles.files)".
LoopFile ==
    /\ pc = "loop"
    /\ fileIdx < Len(files)
    /\ fileIdx' = fileIdx + 1
    /\ LET file == files[fileIdx + 1]
           str  == ReadFileToString(dir, file)
           res  == ParseBuildEvents(str.recs, StoreForFile(events), names)
       IN  IF str.empty
           THEN /\ printed' = Append(printed, Msg("WARN: could not read file", file))
                /\ UNCHANGED <<parsedFiles, contributed, storeVars>>
           ELSE IF ~HasClangMarker(str)
           THEN UNCHANGED <<printed, parsedFiles, contributed, storeVars>>
           ELSE /\ events' = res.events
                /\ names' = res.names
                /\ parsedFiles' = Append(parsedFiles, file)
                /\ contributed' = Append(contributed, Len(res.events) - Len(events))
                /\ printed' = IF res.events = <<>>
                              THEN Append(printed, Msg("no trace events found", file))
                              ELSE printed
    /\ UNCHANGED <<argc, argv1, pc, retCode, session, fsOk, dir, traversed,
                   startTime, endTime, files, report, parseVars, internVars,
                   lookup, cmpVars>>

\* After the loop: DoAnalysis, "done in", return 0.
AnalyzeEnd ==
    /\ pc = "loop"
    /\ fileIdx = Len(files)
    /\ report' = Some(DoAnalysis(events, names))
    /\ Finish(0, <<Msg("done in", NoFile)>>)
    /\ UNCHANGED <<argc, argv1, session, fsOk, dir, traversed, startTime,
                   endTime, files, fileIdx, parsedFiles, contributed, storeVars,
                   parseVars, internVars, lookup, cmpVars>>

\* The user does what a successful --start printed: runs the advised command
\* with <artifactsdir> and <filename>.
RunAdvised ==
    /\ pc = "done" /\ retCode = Some(0) /\ argv1 = "--start"
    /\ printed[Len(printed)] = StartedMessage
    /\ argv1' = AdvisedCommand
    /\ argc' = 4
    /\ pc' = "main" /\ retCode' = None
    /\ UNCHANGED <<printed, session, fsOk, analyzeVars, storeVars,
                   parseVars, internVars, lookup, cmpVars>>

Next ==
    \/ MainUsage \/ CmdStart \/ CmdTest \/ CmdUnsupported
    \/ AnalyzeBegin \/ (\E i \in Entries : OnFile(i)) \/ TraverseEnd
    \/ LoopFile \/ AnalyzeEnd \/ RunAdvised
Spec == Init /\ [][Next]_vars

\* ------------------------------------------------ what the claims refer to
\* The paths OnFile keeps, whatever the order it is given the entries in.
SelectedPaths ==
    {ReplaceBackslash(PathPool[i]) :
        i \in {j \in DOMAIN dir :
                 /\ dir[j].ext = ".json" /\ dir[j].timeOk
                 /\ dir[j].mtime >= startTime /\ dir[j].mtime <= endTime}}

\* A set of paths in ascending order.
RECURSIVE Ascending(_)
Ascending(S) ==
    IF S = {} THEN <<>>
    ELSE LET m == CHOOSE x \in S : \A y \in S \ {x} : StrLess(x, y)
         IN  <<m>> \o Ascending(S \ {m})

\* A path whose text is read and has the marker.
Parseable(path) ==
    ~ReadFileToString(dir, path).empty /\ ReadFileToString(dir, path).marker

\* The store and names table after parsing the parseable paths of seq in order.
RECURSIVE IngestInOrder(_, _)
IngestInOrder(seq, st) ==
    IF seq = <<>> THEN st
    ELSE IngestInOrder(Tail(seq),
            IF Parseable(Head(seq))
            THEN ParseBuildEvents(ReadFileToString(dir, Head(seq)).recs,
                                  st.events, st.names)
            ELSE st)

Analyzed == pc = "done" /\ report # None
HasMessage(text, file) == \E k \in 1..Len(printed) : printed[k] = Msg(text, file)

\* C1: a --analyze run that found candidate files but ends the loop over them
\* with an empty event store returns a non-zero result.
C1_EmptyStoreFails ==
    (pc = "done" /\ argv1 = "--analyze" /\ files # <<>> /\ events = <<>>)
        => retCode # Some(0)

C3_EmptyContributionWarned ==
    /\ \A k \in 1..Len(parsedFiles) :
           contributed[k] = 0 => HasMessage("no trace events found", parsedFiles[k])
    /\ (pc = "done" /\ files # <<>>) => retCode = Some(0)

\* C4: whatever order the traversal delivered the entries in, the files are
\* processed in ascending path order, each once, and the run ends with the
\* store, names table and report of that order.
C4_OrderIndependent ==
    Analyzed =>
        LET order == Ascending(SelectedPaths)
            ref   == IngestInOrder(order, [events |-> <<>>, names |-> {}])
        IN  /\ files = order
            /\ parsedFiles = SelectSeq(order, Parseable)
            /\ events = ref.events
            /\ names = ref.names
            /\ report[1] = DoAnalysis(ref.events, ref.names)

\* C4 witness: two parsed files reached OnFile in descending path order.
C4_Witness ==
    /\ Analyzed
    /\ Len(parsedFiles) >= 2
    /\ \E j, k \in 1..Len(traversed) :
           /\ j < k
           /\ StrLess(PathPool[traversed[k]], PathPool[traversed[j]])
           /\ \E a, b \in 1..Len(parsedFiles) :
                  /\ parsedFiles[a] = PathPool[traversed[j]]
                  /\ parsedFiles[b] = PathPool[traversed[k]]

\* The records of all the files handed to ParseBuildEvents.
RECURSIVE RecordsOf(_)
RecordsOf(paths) ==
    IF paths = <<>> THEN <<>>
    ELSE ReadFileToString(dir, Head(paths)).recs \o RecordsOf(Tail(paths))

\* The (kind, detail handle) pair of a record, by the final names table.
PairOf(rec) ==
    [kind   |-> KindOf(rec.cat),
     detail |-> IF rec.name = NoName THEN BuildEvent.detailIndex
                ELSE CHOOSE h \in BimapLeftFind(names, rec.name) : TRUE]

RECURSIVE SumDur(_, _)
SumDur(recs, pair) ==
    IF recs = <<>> THEN 0
    ELSE (IF PairOf(Head(recs)) = pair THEN Head(recs).dur ELSE 0)
         + SumDur(Tail(recs), pair)

\* C7: for every (kind, detail handle) pair the report's total is the sum of
\* the durations of the events with that pair over all parsed files, and its
\* count their number.
C7_Additivity ==
    Analyzed =>
        LET recs  == RecordsOf(parsedFiles)
            pairs == {PairOf(recs[i]) : i \in 1..Len(recs)}
        IN  /\ \A p \in pairs :
                   [kind |-> p.kind, detail |-> p.detail,
                    total |-> SumDur(recs, p),
                    count |-> Cardinality({i \in 1..Len(recs) : PairOf(recs[i]) = p})]
                       \in report[1].totals
            /\ Cardinality(report[1].totals) = Cardinality(pairs)

\* C7 witness: two files, each with one InstantiateFunction "foo", of
\* durations 100 and 250: total 350, count 2.
C7_Witness ==
    /\ Analyzed
    /\ Len(parsedFiles) = 2
    /\ \E r \in report[1].totals :
           /\ r.kind = "kInstantiateFunction"
           /\ Resolve(names, r.detail) = Some("foo")
           /\ r.total = 350 /\ r.count = 2

\* C9: the command a successful --start tells the user to run next is accepted
\* by ProcessCommands: it does not end in "Unsupported command line arguments"
\* with exit code 1.
C9_AdvisedCommandAccepted ==
    (pc = "done" /\ argv1 = AdvisedCommand)
        => ~(retCode = Some(1)
             /\ HasMessage("Unsupported command line arguments", NoFile))

====
